---- MODULE Spec2Model ----
(***************************************************************************)
(* fylshr: a static file server (Go).  Two program variants exist in the   *)
(* source: src/main.go ("main", plain HTTP only) and src/unnamed/part_000  *)
(* ("part_000", adds --https with an in-memory self-signed certificate).   *)
(* main.go also registers the file server on the default mux             *)
(* (http.Handle("/", fs)); the server is given the handler itself, so the  *)
(* registration reaches no request and has no state here.                  *)
(*                                                                         *)
(* Strings are sequences of characters, each a one-character string, so    *)
(* that indexing, path.Base, filepath.Ext and strconv.Quote are computed   *)
(* as the code computes them.  A character with no TLA+ spelling is named  *)
(* by its code point ("U+0130"), an invalid UTF-8 byte by its value        *)
(* ("0xFF").                                                               *)
(***************************************************************************)
EXTENDS Integers, Sequences, FiniteSets, TLC

VARIABLES sysmime, variant, args, proc, slots, vproc, vresp

vars == <<sysmime, variant, args, proc, slots, vproc, vresp>>

Variants == {"main", "part_000"}

(***************************************************************************)
(* Bounds of the model.                                                    *)
(***************************************************************************)
\* Request paths are built from at most MaxSegs segments.
MaxSegs == 2
\* Number of requests handled concurrently.
NumHandlers == 2
\* Number of writes of a listing, and of io.Copy for the largest file.
BodyChunks == 2

(***************************************************************************)
(* Characters and strings.                                                 *)
(***************************************************************************)
Uppers == <<"A","B","C","D","E","F","G","H","I","J","K","L","M",
            "N","O","P","Q","R","S","T","U","V","W","X","Y","Z">>
Lowers == <<"a","b","c","d","e","f","g","h","i","j","k","l","m",
            "n","o","p","q","r","s","t","u","v","w","x","y","z">>

\* Characters outside ASCII (bytes >= utf8.RuneSelf).
NonASCII == {"U+0130", "U+00AD", "0xFF"}

\* mime.TypeByExtension's per-byte lowering: 'A'..'Z' get +('a'-'A').
LowerChar(c) ==
    IF \E k \in 1..26 : Uppers[k] = c
    THEN Lowers[CHOOSE k \in 1..26 : Uppers[k] = c]
    ELSE c

\* strings.ToLower on one rune: U+0130 (capital I with dot) lowers to 'i',
\* an invalid byte becomes U+FFFD.
ToLowerRune(c) ==
    CASE c = "U+0130" -> "i"
      [] c = "0xFF"   -> "U+FFFD"
      [] OTHER        -> LowerChar(c)

\* The lower-casing of TypeByExtension's second lookup: byte by byte for an
\* ASCII extension, strings.ToLower as soon as a byte is >= utf8.RuneSelf.
LowerStr(s) ==
    IF \E k \in 1..Len(s) : s[k] \in NonASCII
    THEN [k \in 1..Len(s) |-> ToLowerRune(s[k])]
    ELSE [k \in 1..Len(s) |-> LowerChar(s[k])]

RECURSIVE Flatten(_)
Flatten(ss) == IF ss = <<>> THEN <<>> ELSE Head(ss) \o Flatten(Tail(ss))

\* Largest index of character c in s, 0 when absent.
LastIndex(s, c) ==
    IF \E k \in 1..Len(s) : s[k] = c
    THEN CHOOSE k \in 1..Len(s) : s[k] = c /\ \A j \in (k+1)..Len(s) : s[j] # c
    ELSE 0

(***************************************************************************)
(* path.Base (Go standard library, called at the handler's                 *)
(* filename := path.Base(url)).                                            *)
(***************************************************************************)
RECURSIVE StripTrailingSlashes(_)
StripTrailingSlashes(p) ==
    IF Len(p) > 0 /\ p[Len(p)] = "/"
    THEN StripTrailingSlashes(SubSeq(p, 1, Len(p) - 1))
    ELSE p

Base(p) ==
    IF p = <<>> THEN <<".">>
    ELSE LET q == StripTrailingSlashes(p)
             i == LastIndex(q, "/")
             r == IF i > 0 THEN SubSeq(q, i + 1, Len(q)) ELSE q
         IN  IF r = <<>> THEN <<"/">> ELSE r

(***************************************************************************)
(* filepath.Ext: scan from the end to the last '.', stopping at a          *)
(* path separator.                                                         *)
(***************************************************************************)
RECURSIVE ExtFrom(_, _)
ExtFrom(name, i) ==
    IF i < 1 \/ name[i] = "/" THEN <<>>
    ELSE IF name[i] = "." THEN SubSeq(name, i, Len(name))
    ELSE ExtFrom(name, i - 1)

Ext(name) == ExtFrom(name, Len(name))

(***************************************************************************)
(* mime.TypeByExtension.  The table is Go's built-in one, to which the     *)
(* host's shared-mime-info globs file, when the host has one (sysmime),    *)
(* adds the extensions the built-in table does not know.  The lookup is    *)
(* case-sensitive first and then lower-cased.  "" is the answer for an     *)
(* unknown extension.                                                      *)
(***************************************************************************)
builtinTypesLower(ext) ==
    CASE ext = <<".","a","v","i","f">> -> "image/avif"
      [] ext = <<".","c","s","s">>     -> "text/css; charset=utf-8"
      [] ext = <<".","g","i","f">>     -> "image/gif"
      [] ext = <<".","h","t","m">>     -> "text/html; charset=utf-8"
      [] ext = <<".","h","t","m","l">> -> "text/html; charset=utf-8"
      [] ext = <<".","j","p","e","g">> -> "image/jpeg"
      [] ext = <<".","j","p","g">>     -> "image/jpeg"
      [] ext = <<".","j","s">>         -> "text/javascript; charset=utf-8"
      [] ext = <<".","j","s","o","n">> -> "application/json"
      [] ext = <<".","m","j","s">>     -> "text/javascript; charset=utf-8"
      [] ext = <<".","p","d","f">>     -> "application/pdf"
      [] ext = <<".","p","n","g">>     -> "image/png"
      [] ext = <<".","s","v","g">>     -> "image/svg+xml"
      [] ext = <<".","w","a","s","m">> -> "application/wasm"
      [] ext = <<".","w","e","b","p">> -> "image/webp"
      [] ext = <<".","x","m","l">>     -> "text/xml; charset=utf-8"
      [] OTHER                         -> ""

\* Entries of a usual host's globs file (text types get charset=utf-8).
systemTypesLower(ext) ==
    CASE ext = <<".","m","p","4">>     -> "video/mp4"
      [] ext = <<".","z","i","p">>     -> "application/zip"
      [] ext = <<".","d","o","c">>     -> "application/msword"
      [] ext = <<".","m","i","d">>     -> "audio/midi"
      [] ext = <<".","w","a","v">>     -> "audio/x-wav"
      [] ext = <<".","g","z">>         -> "application/gzip"
      [] ext = <<".","t","x","t">>     -> "text/plain; charset=utf-8"
      [] OTHER                         -> ""

mimeTypes(ext) ==
    IF builtinTypesLower(ext) # "" THEN builtinTypesLower(ext)
    ELSE IF sysmime THEN systemTypesLower(ext)
    ELSE ""

TypeByExtension(ext) ==
    IF mimeTypes(ext) # "" THEN mimeTypes(ext)
    ELSE mimeTypes(LowerStr(ext))

\* The switch of isMedia: the fixed classification table.
MediaTypes ==
    { "image/jpeg", "image/png", "image/gif",
      "video/mp4", "video/mpeg", "video/webm", "video/quicktime",
      "application/pdf", "application/msword",
      "application/vnd.openxmlformats-officedocument.wordprocessingml.document",
      "application/vnd.ms-powerpoint",
      "application/vnd.openxmlformats-officedocument.presentationml.presentation",
      "application/vnd.ms-excel",
      "application/vnd.openxmlformats-officedocument.spreadsheetml.sheet",
      "audio/mpeg", "audio/wav", "audio/ogg", "audio/midi", "application/ogg",
      "application/x-7z-compressed", "application/zip",
      "application/x-rar-compressed", "application/x-tar",
      "application/x-bzip2", "application/x-gzip",
      "application/x-zip-compressed", "application/x-tar-gz",
      "application/x-compressed-tar" }

isMediaAnyMapped(filename) == TypeByExtension(Ext(filename)) # ""

isMedia(filename) == TypeByExtension(Ext(filename)) \in MediaTypes

(***************************************************************************)
(* strconv.Quote: a Go string literal.  '"' and '\' get a backslash; the   *)
(* control characters with a short escape get it (\a \b \f \n \r \t \v);   *)
(* another control character, DEL or an invalid byte is \xNN; a rune that  *)
(* is not printable is \uNNNN; printable characters, ASCII or not, stand   *)
(* for themselves.                                                         *)
(***************************************************************************)
QuoteChar(c) ==
    CASE c = "\""     -> <<"\\", "\"">>
      [] c = "\\"     -> <<"\\", "\\">>
      [] c = "U+0007" -> <<"\\", "a">>
      [] c = "U+0008" -> <<"\\", "b">>
      [] c = "\f"     -> <<"\\", "f">>
      [] c = "\n"     -> <<"\\", "n">>
      [] c = "\r"     -> <<"\\", "r">>
      [] c = "\t"     -> <<"\\", "t">>
      [] c = "U+000B" -> <<"\\", "v">>
      [] c = "U+0001" -> <<"\\", "x", "0", "1">>
      [] c = "U+007F" -> <<"\\", "x", "7", "f">>
      [] c = "0xFF"   -> <<"\\", "x", "f", "f">>
      [] c = "U+00AD" -> <<"\\", "u", "0", "0", "a", "d">>
      [] OTHER        -> <<c>>

QuoteNoEscape(s) == <<"\"">> \o s \o <<"\"">>

Quote(s) == <<"\"">> \o Flatten([k \in 1..Len(s) |-> QuoteChar(s[k])]) \o <<"\"">>

\* "attachment; filename=" as characters.
DispositionPrefix ==
    <<"a","t","t","a","c","h","m","e","n","t",";"," ",
      "f","i","l","e","n","a","m","e","=">>

\* fmt.Sprintf("attachment; filename=%s", strconv.Quote(filename)) in
\* part_000, which calls the value disposition.
Disposition(filename) == DispositionPrefix \o Quote(filename)

\* isDir := url[len(url)-1] == '/'.  Indexing the empty string at -1 is a
\* run-time panic (index out of range).
IndexPanics(url) == Len(url) = 0

IsDirFirstChar(url) == url[1] = "/"

IsDirRequest(url) == url[Len(url)] = "/"

(***************************************************************************)
(* Request paths the server can receive (r.URL.Path, percent-decoded): up  *)
(* to MaxSegs segments joined by '/', with or without a leading '/'.  The  *)
(* empty path is what a request line with an absolute URI and no path      *)
(* ("GET http://host HTTP/1.1") or a CONNECT request yields.               *)
(***************************************************************************)
Segments ==
    { <<>>,
      <<"d">>,
      <<"r", ".", "p", "d", "f">>,
      <<"n", ".", "c", "s", "s">>,
      <<"m", ".", "t", "x", "t">>,
      <<"q", "\"", "\\", ".", "G", "I", "F">>,
      <<"t", "\t", "U+007F", ".", "m", "p", "4">>,
      <<"x", ".", "g", "U+0130", "f">> }

RECURSIVE Join(_)
Join(segs) ==
    IF segs = <<>> THEN <<>>
    ELSE IF Len(segs) = 1 THEN segs[1]
    ELSE segs[1] \o <<"/">> \o Join(Tail(segs))

SegLists == UNION { [1..n -> Segments] : n \in 0..MaxSegs }

Paths == { Join(l) : l \in SegLists } \cup { <<"/">> \o Join(l) : l \in SegLists }

\* The paths of the concurrent specification: a directory request and a
\* media file.
ConcPaths == { <<"/", "d", "/">>, <<"/", "r", ".", "p", "d", "f">> }

Methods == {"GET", "HEAD"}

\* r.Proto.  ListenAndServeTLS offers HTTP/2 in the TLS handshake (the
\* tls.Config names no protocols and the server has no TLSNextProto);
\* ListenAndServe speaks HTTP/1.x only.
Protos(a) == IF a.https THEN {"HTTP/1.1", "HTTP/2.0"} ELSE {"HTTP/1.1"}

(***************************************************************************)
(* http.ResponseWriter.  Content-Disposition is the only header the        *)
(* program sets; <<>> stands for "not set".  The body is the sequence of   *)
(* writes the server sends to the client; lengths are in bytes.            *)
(***************************************************************************)
NoHeader == <<>>

\* len(style): the bytes between the back quotes of the style constant.
StyleLen == 599

\* The buffer of an HTTP/2 response (handlerChunkWriteSize).
handlerChunkWriteSize == 4096

\* io.Copy's buffer: the largest single write of a file's content.
CopyBufSize == 32768

\* The bytes (*response).ReadFrom writes before it hands the rest of a file
\* to the connection (sniffLen).
sniffLen == 512

NewResponse ==
    [ disposition    |-> NoHeader,
      wroteHeader    |-> FALSE,
      status         |-> 0,
      contentLength  |-> -1,
      written        |-> 0,
      sentHeader     |-> FALSE,
      sentContentLen |-> 0,
      buffered       |-> 0,
      body           |-> <<>> ]

\* 1xx, 204 and 304 carry no body.
BodyAllowed(status) == ~(status \in 100..199 \/ status = 204 \/ status = 304)

WriteHeader(w, code) ==
    IF w.wroteHeader THEN w
    ELSE [w EXCEPT !.wroteHeader = TRUE, !.status = code]

\* HTTP/1.x, response.write of n bytes: an implicit WriteHeader(200);
\* ErrBodyNotAllowed for a status without body; ErrContentLength once more
\* than the declared Content-Length has been written; a HEAD request's bytes
\* are counted and not sent.
Write(w, method, chunk, n) ==
    LET w1 == WriteHeader(w, 200)
        w2 == [w1 EXCEPT !.written = @ + n]
    IN  IF ~BodyAllowed(w1.status) THEN w1
        ELSE IF w2.contentLength # -1 /\ w2.written > w2.contentLength THEN w2
        ELSE IF method = "HEAD" THEN w2
        ELSE [w2 EXCEPT !.body = Append(@, chunk)]

\* HTTP/2, http2responseWriter.write of n bytes: an implicit WriteHeader(200);
\* ErrBodyNotAllowed for a status without body; the declared Content-Length
\* is only known, and checked, once the header has been sent
\* (sentContentLen), which is when the buffer first overflows: until then
\* every write is taken, and what is in the buffer is sent at the handler's
\* end.  A Content-Length of 0 is never checked.  A HEAD request's bytes are
\* not sent.
http2Write(w, method, chunk, n) ==
    LET w1 == WriteHeader(w, 200)
        w2 == [w1 EXCEPT !.written = @ + n]
        flush == w2.buffered + n > handlerChunkWriteSize
        rest == w2.buffered + n - handlerChunkWriteSize
        w3 == [w2 EXCEPT
                 !.buffered = IF ~flush THEN @ + n
                              ELSE IF @ = 0 \/ rest > handlerChunkWriteSize
                                   THEN 0 ELSE rest,
                 !.sentHeader = @ \/ flush,
                 !.sentContentLen =
                     IF flush /\ ~w2.sentHeader /\ w2.contentLength > 0
                     THEN w2.contentLength ELSE @]
    IN  IF ~BodyAllowed(w1.status) THEN w1
        ELSE IF w2.sentContentLen # 0 /\ w2.written > w2.sentContentLen THEN w2
        ELSE IF method = "HEAD" THEN w3
        ELSE [w3 EXCEPT !.body = Append(@, chunk)]

(***************************************************************************)
(* The delegated file server, fs.ServeHTTP(w, r): what http.FileServer     *)
(* does with the response, by outcome.                                     *)
(*   listing      a generated directory listing: no Content-Length,        *)
(*                several writes, the header written by the first of them  *)
(*   file         a file (index.html for a directory request) through      *)
(*                serveContent: Content-Length set to the file's size,     *)
(*                status 200, then the content, which a HEAD request       *)
(*                skips.  Over HTTP/2 and over HTTP/1.x on TLS io.Copy     *)
(*                makes writes of at most CopyBufSize bytes.  Over plain   *)
(*                HTTP/1.x the response's ReadFrom writes the first        *)
(*                sniffLen bytes and the TCP connection's ReadFrom         *)
(*                (sendfile) sends the rest, which is added to the bytes   *)
(*                written without passing through Write                    *)
(*   partial      as file for a Range request: status 206, the size that   *)
(*                of the range                                             *)
(*   redirect     301 with a Location header and no body                   *)
(*   notmodified  304 (If-Modified-Since, If-None-Match), no body          *)
(*   precondition 412 (If-Match, If-Unmodified-Since), no body             *)
(*   forbidden, notfound, badrange, failed                                 *)
(*                403, 404, 416, 500 through http.Error: a one-line body   *)
(*                and no Content-Length                                    *)
(***************************************************************************)
AllOutcomes ==
    { "listing", "file", "partial", "redirect", "notmodified", "precondition",
      "forbidden", "notfound", "badrange", "failed" }

\* A listing is the answer to a path that ends in '/' only: a directory
\* named without it is redirected.
Outcomes(url) ==
    IF url[Len(url)] = "/" THEN AllOutcomes ELSE AllOutcomes \ {"listing"}

OutcomeStatus(outcome) ==
    CASE outcome = "file"         -> 200
      [] outcome = "partial"      -> 206
      [] outcome = "redirect"     -> 301
      [] outcome = "notmodified"  -> 304
      [] outcome = "forbidden"    -> 403
      [] outcome = "notfound"     -> 404
      [] outcome = "precondition" -> 412
      [] outcome = "badrange"     -> 416
      [] outcome = "failed"       -> 500

\* Sizes of the files served: empty, shorter than sniffLen, filling the
\* HTTP/2 buffer exactly, one byte more, and one that takes BodyChunks writes
\* of io.Copy.
FileSizes ==
    { 0, sniffLen - 1, handlerChunkWriteSize, handlerChunkWriteSize + 1,
      CopyBufSize * (BodyChunks - 1) + 1 }

\* The sizes of the concurrent specification: no content, and a file or
\* range longer than sniffLen.
ConcSizes == { 0, handlerChunkWriteSize + 1 }

\* The bytes serveContent sends: a file's size, a range's length (here on
\* either side of the HTTP/2 buffer's size).
SendSizes(outcome) ==
    CASE outcome = "file"    -> FileSizes
      [] outcome = "partial" -> { handlerChunkWriteSize, handlerChunkWriteSize + 1 }
      [] OTHER               -> {0}

\* Number of steps io.CopyN(w, sendContent, size) takes.  rf: w is an
\* HTTP/1.x response on a TCP connection, so that the copy is the response's
\* ReadFrom: nothing for an empty file, one write for a file shorter than
\* sniffLen, otherwise a write of sniffLen bytes and the connection's
\* ReadFrom of the rest.  Otherwise io.Copy's writes of CopyBufSize bytes.
CopyChunks(size, rf) ==
    IF rf
    THEN IF size = 0 THEN 0 ELSE IF size < sniffLen THEN 1 ELSE 2
    ELSE (size + CopyBufSize - 1) \div CopyBufSize

FsChunks(outcome, method, size, rf) ==
    CASE outcome = "listing" -> BodyChunks
      [] outcome \in {"file", "partial"} ->
            IF method = "HEAD" THEN 0 ELSE CopyChunks(size, rf)
      [] outcome \in {"forbidden", "notfound", "badrange", "failed"} -> 1
      [] OTHER -> 0

\* Length of the step made when k steps remain: "<pre>\n", one line for an
\* entry, "</pre>\n" of a listing; of a file, sniffLen bytes and the rest
\* (rf), or a buffer and at last what remains; the line of http.Error.
FsWriteLen(outcome, size, k, rf) ==
    CASE outcome = "listing" ->
            IF k = BodyChunks THEN 6 ELSE IF k = 1 THEN 7 ELSE 20
      [] outcome \in {"file", "partial"} ->
            IF rf
            THEN IF size < sniffLen THEN size
                 ELSE IF k > 1 THEN sniffLen ELSE size - sniffLen
            ELSE IF k > 1 THEN CopyBufSize
                 ELSE size - CopyBufSize * (CopyChunks(size, rf) - 1)
      [] outcome = "forbidden" -> 14
      [] outcome = "notfound"  -> 19
      [] outcome = "badrange"  -> 33
      [] outcome = "failed"    -> 26
      [] OTHER -> 0

FsHeader(w, outcome, size) ==
    CASE outcome = "listing" -> w
      [] outcome \in {"file", "partial"} ->
            WriteHeader([w EXCEPT !.contentLength = size],
                        OutcomeStatus(outcome))
      [] OTHER -> WriteHeader(w, OutcomeStatus(outcome))

\* fileHandler.ServeHTTP gives a request path without leading '/' one, in
\* the request itself: r.URL.Path = "/" + r.URL.Path.
FsPath(rpath) == IF rpath[1] # "/" THEN <<"/">> \o rpath ELSE rpath

(***************************************************************************)
(* One request/response exchange: the handler's local state.  url is the   *)
(* handler's local copy of the path, rpath the request's own field         *)
(* r.URL.Path.                                                             *)
(***************************************************************************)
Idle ==
    [ pc      |-> "idle",
      id      |-> 0,
      url     |-> <<>>,
      rpath   |-> <<>>,
      method  |-> "GET",
      proto   |-> "HTTP/1.1",
      tls     |-> FALSE,
      isDir   |-> FALSE,
      outcome |-> "none",
      size    |-> 0,
      plan    |-> 0,
      w       |-> NewResponse,
      log     |-> <<>> ]

\* A request on a connection of the process: r.TLS is set on a connection
\* accepted by ListenAndServeTLS.
Accept(i, url, method, proto, tls) ==
    [Idle EXCEPT !.pc = "classify", !.id = i, !.url = url, !.rpath = url,
                 !.method = method, !.proto = proto, !.tls = tls]

\* A write of n bytes to the response of exchange x, by the connection's
\* protocol.
ResponseWrite(x, chunk, n) ==
    IF x.proto = "HTTP/2.0" THEN http2Write(x.w, x.method, chunk, n)
    ELSE Write(x.w, x.method, chunk, n)

\* The response is an HTTP/1.x one on a TCP connection: io.Copy to it goes
\* through (*response).ReadFrom and the connection's ReadFrom.
UsesReadFrom(x) == x.proto # "HTTP/2.0" /\ ~x.tls

\* The connection's ReadFrom of n bytes of a file: sent and added to the
\* bytes written, without Write's checks.
ConnReadFrom(w, chunk, n) ==
    [w EXCEPT !.written = @ + n,
              !.body = IF n > 0 THEN Append(@, chunk) ELSE @]

\* fs.ServeHTTP(w, r), up to its first write of the body.
FsServe(x, outcome, size) ==
    [x EXCEPT !.outcome = outcome,
              !.size = size,
              !.rpath = FsPath(x.rpath),
              !.plan = FsChunks(outcome, x.method, size, UsesReadFrom(x)),
              !.w = FsHeader(x.w, outcome, size)]

\* fs.ServeHTTP(w, r): one more step of the body.
FsWrite(x) ==
    LET n == FsWriteLen(x.outcome, x.size, x.plan, UsesReadFrom(x))
        chunk == <<"fs", x.id, x.plan>>
        rest == /\ UsesReadFrom(x)
                /\ x.outcome \in {"file", "partial"}
                /\ x.size >= sniffLen
                /\ x.plan = 1
    IN  [x EXCEPT !.w = IF rest THEN ConnReadFrom(x.w, chunk, n)
                        ELSE ResponseWrite(x, chunk, n),
                  !.plan = @ - 1]

StyleChunk(x) == <<"style", x.id>>

Finished(x) == x.pc \in {"done", "panicked"}

(***************************************************************************)
(* The handler of src/unnamed/part_000.                                    *)
(***************************************************************************)
NeedsHeader(x) == ~x.isDir /\ isMedia(Base(x.url))

NextPcHeaderLast(x) ==
    CASE x.pc = "classify" -> "serve"
      [] x.pc = "serve" \/ x.pc = "writing" ->
            IF x.plan > 0 THEN "writing"
            ELSE IF NeedsHeader(x) THEN "header" ELSE "style"
      [] x.pc = "header"   -> "style"
      [] x.pc = "style"    -> "log"
      [] x.pc = "log"      -> "done"
      [] OTHER             -> x.pc

\* The handler's control flow: classify, set the header, delegate, append
\* the style, log.
NextPc(x) ==
    CASE x.pc = "classify" -> IF NeedsHeader(x) THEN "header" ELSE "serve"
      [] x.pc = "header"   -> "serve"
      [] x.pc = "serve" \/ x.pc = "writing" ->
            IF x.plan > 0 THEN "writing" ELSE "style"
      [] x.pc = "style"    -> "log"
      [] x.pc = "log"      -> "done"
      [] OTHER             -> x.pc

\* url := r.URL.Path; isDir := url[len(url)-1] == '/'.  A panic ends the
\* handler: net/http recovers it, logs it and closes the connection.
ClassifyStep(x) ==
    IF IndexPanics(x.url) THEN [x EXCEPT !.pc = "panicked"]
    ELSE LET x1 == [x EXCEPT !.isDir = IsDirRequest(x.url)]
         IN  [x1 EXCEPT !.pc = NextPc(x1)]

\* w.Header().Set("Content-Disposition", disposition)
HeaderStep(x) ==
    [x EXCEPT !.w.disposition = Disposition(Base(x.url)), !.pc = NextPc(x)]

\* fs.ServeHTTP(w, r)
ServeStep(x, outcome, size) ==
    LET x1 == FsServe(x, outcome, size)
    IN  [x1 EXCEPT !.pc = NextPc(x1)]

WriteStep(x) ==
    LET x1 == FsWrite(x)
    IN  [x1 EXCEPT !.pc = NextPc(x1)]

\* if isDir { io.WriteString(w, style) }: the error is not looked at.
StyleStep(x) ==
    [x EXCEPT !.w = IF x.isDir THEN ResponseWrite(x, StyleChunk(x), StyleLen)
                    ELSE @,
              !.pc = NextPc(x)]

\* The arguments of fmt.Printf: r.Method, r.URL.Path as it is when the line
\* is printed, r.Proto, r.RemoteAddr, the User-Agent header.
LogLine(x) ==
    [ method |-> x.method, path |-> x.rpath, proto |-> x.proto,
      remote |-> x.id, agent |-> "agent" ]

\* if !args.silent { fmt.Printf(...) }
LogStep(a, x) ==
    [x EXCEPT !.log = IF a.silent THEN @ ELSE Append(@, LogLine(x)),
              !.pc = NextPc(x)]

\* One step of the handler, whatever it is.
HandlerStep(a, x, outcome, size) ==
    CASE x.pc = "classify" -> ClassifyStep(x)
      [] x.pc = "header"   -> HeaderStep(x)
      [] x.pc = "serve"    -> ServeStep(x, outcome, size)
      [] x.pc = "writing"  -> WriteStep(x)
      [] x.pc = "style"    -> StyleStep(x)
      [] x.pc = "log"      -> LogStep(a, x)
      [] OTHER             -> x

\* The handler run from the request to its end.
RECURSIVE RunHandler(_, _, _, _)
RunHandler(a, x, outcome, size) ==
    IF Finished(x) \/ x.pc = "idle" THEN x
    ELSE RunHandler(a, HandlerStep(a, x, outcome, size), outcome, size)

(***************************************************************************)
(* The handler of src/main.go, and the isMedia it calls.                   *)
(***************************************************************************)
MainMediaTypes ==
    { "image/jpeg", "image/png", "image/gif",
      "video/mp4", "video/mpeg", "video/webm", "video/quicktime",
      "application/pdf", "application/msword",
      "application/vnd.openxmlformats-officedocument.wordprocessingml.document",
      "application/vnd.ms-powerpoint",
      "application/vnd.openxmlformats-officedocument.presentationml.presentation",
      "application/vnd.ms-excel",
      "application/vnd.openxmlformats-officedocument.spreadsheetml.sheet",
      "audio/mpeg", "audio/wav", "audio/ogg", "audio/midi", "application/ogg",
      "application/x-7z-compressed", "application/zip",
      "application/x-rar-compressed", "application/x-tar",
      "application/x-bzip2", "application/x-gzip",
      "application/x-zip-compressed", "application/x-tar-gz",
      "application/x-compressed-tar" }

MainIsMedia(filename) == TypeByExtension(Ext(filename)) \in MainMediaTypes

\* if !isDir { filename := path.Base(url); if isMedia(filename) { ... } }
MainNeedsHeader(x) == ~x.isDir /\ MainIsMedia(Base(x.url))

MainNextPc(x) ==
    CASE x.pc = "classify" -> IF MainNeedsHeader(x) THEN "header" ELSE "serve"
      [] x.pc = "header"   -> "serve"
      [] x.pc = "serve" \/ x.pc = "writing" ->
            IF x.plan > 0 THEN "writing" ELSE "style"
      [] x.pc = "style"    -> "log"
      [] x.pc = "log"      -> "done"
      [] OTHER             -> x.pc

\* url := r.URL.Path; isDir := url[len(url)-1] == '/'
MainClassifyStep(x) ==
    IF Len(x.url) = 0 THEN [x EXCEPT !.pc = "panicked"]
    ELSE LET x1 == [x EXCEPT !.isDir = (x.url[Len(x.url)] = "/")]
         IN  [x1 EXCEPT !.pc = MainNextPc(x1)]

\* filename := fmt.Sprintf("attachment; filename=%s", strconv.Quote(filename))
\* (the inner filename shadows the outer one);
\* w.Header().Set("Content-Disposition", filename)
MainHeaderStep(x) ==
    LET filename == Base(x.url)
        shadow == DispositionPrefix \o Quote(filename)
    IN  [x EXCEPT !.w.disposition = shadow, !.pc = MainNextPc(x)]

\* fs.ServeHTTP(w, r)
MainServeStep(x, outcome, size) ==
    LET x1 == FsServe(x, outcome, size)
    IN  [x1 EXCEPT !.pc = MainNextPc(x1)]

MainWriteStep(x) ==
    LET x1 == FsWrite(x)
    IN  [x1 EXCEPT !.pc = MainNextPc(x1)]

\* if isDir { io.WriteString(w, style) }
MainStyleStep(x) ==
    [x EXCEPT !.w = IF x.isDir THEN ResponseWrite(x, StyleChunk(x), StyleLen)
                    ELSE @,
              !.pc = MainNextPc(x)]

\* The arguments of fmt.Printf: r.Method, r.Proto, r.RemoteAddr, the
\* User-Agent header; no path.
MainLogLine(x) ==
    [ method |-> x.method, proto |-> x.proto,
      remote |-> x.id, agent |-> "agent" ]

MainLogStep(a, x) ==
    [x EXCEPT !.log = IF a.silent THEN @ ELSE Append(@, MainLogLine(x)),
              !.pc = MainNextPc(x)]

MainHandlerStep(a, x, outcome, size) ==
    CASE x.pc = "classify" -> MainClassifyStep(x)
      [] x.pc = "header"   -> MainHeaderStep(x)
      [] x.pc = "serve"    -> MainServeStep(x, outcome, size)
      [] x.pc = "writing"  -> MainWriteStep(x)
      [] x.pc = "style"    -> MainStyleStep(x)
      [] x.pc = "log"      -> MainLogStep(a, x)
      [] OTHER             -> x

RECURSIVE MainRunHandler(_, _, _, _)
MainRunHandler(a, x, outcome, size) ==
    IF Finished(x) \/ x.pc = "idle" THEN x
    ELSE MainRunHandler(a, MainHandlerStep(a, x, outcome, size), outcome, size)

(***************************************************************************)
(* Process start: parseArgs, the banner, generateTLSConfig, the listen     *)
(* call.                                                                   *)
(***************************************************************************)
ArgSets == [silent : BOOLEAN, https : BOOLEAN]

\* big.NewInt(1<<62): the shift that sets the serial number's range.
SerialShift == 62

\* rand.Int reads k = (bitLen+7)/8 bytes, bitLen the bit length of max-1.
SerialBytes == (SerialShift + 7) \div 8

\* Values a byte of the random source is drawn from.
RandByteValues == {0, 1, 255}

\* rand.Int(rand.Reader, max) for max = 2^SerialShift: the top byte is
\* masked to bitLen % 8 bits (8 when that is 0), the bytes are read
\* big-endian.  The masked value is below max, so the first draw is returned.
RandInt(bytes) ==
    LET b == IF SerialShift % 8 = 0 THEN 8 ELSE SerialShift % 8
    IN  [bytes EXCEPT ![1] = @ % (2 ^ b)]

StartState ==
    [ phase     |-> "parse",
      priv      |-> "unset",
      serialNil |-> TRUE,
      serial    |-> <<>>,
      der       |-> "unset",
      exit      |-> "" ]

\* What the environment does to the start: whether key generation, the
\* random read, certificate construction and the bind succeed, and the
\* random bytes read (here one pattern: the bytes do not reach a response).
Fates ==
    [ keyOk : BOOLEAN, randOk : BOOLEAN, certOk : BOOLEAN, listenOk : BOOLEAN,
      bytes : {[k \in 1..SerialBytes |-> 255]} ]

\* flag.Parse: main.go defines no -https flag, so the flag package reports
\* "flag provided but not defined" and exits with status 2.
ParseStep(v, a, p) ==
    IF a.https /\ v = "main"
    THEN [p EXCEPT !.phase = "exited", !.exit = "usage"]
    ELSE [p EXCEPT !.phase = "banner"]

\* The banner, then the branch on args.https (part_000 only).
BannerStep(v, a, p) ==
    [p EXCEPT !.phase = IF v = "part_000" /\ a.https THEN "genkey" ELSE "listen"]

\* priv, _ := ecdsa.GenerateKey(...): nil on error, the error dropped.
GenerateKeyStep(p, ok) ==
    [p EXCEPT !.priv = IF ok THEN "key" ELSE "nil", !.phase = "serial"]

\* serialNumber, _ := rand.Int(...): nil on error, the error dropped.
SerialStep(p, ok, bytes) ==
    IF ok
    THEN [p EXCEPT !.serialNil = FALSE, !.serial = RandInt(bytes), !.phase = "cert"]
    ELSE [p EXCEPT !.serialNil = TRUE, !.serial = <<>>, !.phase = "cert"]

\* derBytes, _ := x509.CreateCertificate(..., &priv.PublicKey, priv): a nil
\* priv is dereferenced (run-time panic); a nil serial number makes
\* CreateCertificate fail; its error is dropped and derBytes is nil.
CreateCertificateStep(p, ok) ==
    IF p.priv = "nil"
    THEN [p EXCEPT !.phase = "exited", !.exit = "panic"]
    ELSE [p EXCEPT !.der = IF ok /\ ~p.serialNil THEN "ok" ELSE "nil",
                   !.phase = "listen"]

\* log.Fatal(ListenAndServe...): serving, or a fatal bind error.  A TLS
\* config that holds a certificate entry is served as it is.
ListenStep(p, ok) ==
    IF ok THEN [p EXCEPT !.phase = "serving"]
    ELSE [p EXCEPT !.phase = "exited", !.exit = "fatal"]

StartStep(v, a, p, e) ==
    CASE p.phase = "parse"  -> ParseStep(v, a, p)
      [] p.phase = "banner" -> BannerStep(v, a, p)
      [] p.phase = "genkey" -> GenerateKeyStep(p, e.keyOk)
      [] p.phase = "serial" -> SerialStep(p, e.randOk, e.bytes)
      [] p.phase = "cert"   -> CreateCertificateStep(p, e.certOk)
      [] p.phase = "listen" -> ListenStep(p, e.listenOk)
      [] OTHER              -> p

RECURSIVE RunStartup(_, _, _, _)
RunStartup(v, a, p, e) ==
    IF p.phase \in {"serving", "exited"} THEN p
    ELSE RunStartup(v, a, StartStep(v, a, p, e), e)

\* Whether a client gets an answer from the process: it is serving and,
\* over TLS, the handshake has a certificate to present.
Answers(a, p) == p.phase = "serving" /\ (a.https => p.der = "ok")

NoAnswer == [served |-> FALSE, w |-> NewResponse]

\* The processes a handler can run in: the results of the start that answer
\* clients.  Over TLS that is a key, a serial number and a certificate.
ServingProcs(v, a) ==
    { p \in { RunStartup(v, a, StartState, e) : e \in Fates } : Answers(a, p) }

(***************************************************************************)
(* Specification Spec: one request against a serving process.              *)
(* Specification SpecConc: NumHandlers requests handled concurrently.      *)
(***************************************************************************)
Handlers == 1..NumHandlers

Init ==
    /\ sysmime \in BOOLEAN
    /\ variant \in Variants
    /\ args \in ArgSets
    /\ variant = "main" => ~args.https
    /\ proc \in ServingProcs(variant, args)
    /\ slots = [i \in Handlers |-> Idle]
    /\ vproc = [v \in Variants |-> StartState]
    /\ vresp = [v \in Variants |-> NoAnswer]

Receive(i, urls, methods) ==
    /\ slots[i].pc = "idle"
    /\ \E url \in urls, m \in methods, pr \in Protos(args) :
          slots' = [slots EXCEPT ![i] = Accept(i, url, m, pr, args.https)]
    /\ UNCHANGED <<sysmime, variant, args, proc, vproc, vresp>>

Classify(i) ==
    /\ slots[i].pc = "classify"
    /\ slots' = [slots EXCEPT ![i] = IF variant = "main"
                                     THEN MainClassifyStep(@)
                                     ELSE ClassifyStep(@)]
    /\ UNCHANGED <<sysmime, variant, args, proc, vproc, vresp>>

SetHeader(i) ==
    /\ slots[i].pc = "header"
    /\ slots' = [slots EXCEPT ![i] = IF variant = "main"
                                     THEN MainHeaderStep(@)
                                     ELSE HeaderStep(@)]
    /\ UNCHANGED <<sysmime, variant, args, proc, vproc, vresp>>

Serve(i, sizes) ==
    /\ slots[i].pc = "serve"
    /\ \E o \in Outcomes(slots[i].url) : \E s \in SendSizes(o) \cap sizes :
          slots' = [slots EXCEPT ![i] = IF variant = "main"
                                        THEN MainServeStep(@, o, s)
                                        ELSE ServeStep(@, o, s)]
    /\ UNCHANGED <<sysmime, variant, args, proc, vproc, vresp>>

ServeWrite(i) ==
    /\ slots[i].pc = "writing"
    /\ slots' = [slots EXCEPT ![i] = IF variant = "main"
                                     THEN MainWriteStep(@)
                                     ELSE WriteStep(@)]
    /\ UNCHANGED <<sysmime, variant, args, proc, vproc, vresp>>

AppendStyle(i) ==
    /\ slots[i].pc = "style"
    /\ slots' = [slots EXCEPT ![i] = IF variant = "main"
                                     THEN MainStyleStep(@)
                                     ELSE StyleStep(@)]
    /\ UNCHANGED <<sysmime, variant, args, proc, vproc, vresp>>

LogRequest(i) ==
    /\ slots[i].pc = "log"
    /\ slots' = [slots EXCEPT ![i] = IF variant = "main"
                                     THEN MainLogStep(args, @)
                                     ELSE LogStep(args, @)]
    /\ UNCHANGED <<sysmime, variant, args, proc, vproc, vresp>>

Handle(i, sizes) ==
    \/ Classify(i)
    \/ SetHeader(i)
    \/ Serve(i, sizes)
    \/ ServeWrite(i)
    \/ AppendStyle(i)
    \/ LogRequest(i)

Next ==
    \/ Receive(1, Paths, Methods)
    \/ Handle(1, FileSizes)

Spec == Init /\ [][Next]_vars

NextConc ==
    \E i \in Handlers :
        \/ Receive(i, ConcPaths, {"GET"})
        \/ Handle(i, ConcSizes)

InitConc ==
    /\ sysmime = TRUE
    /\ variant = "part_000"
    /\ args \in {a \in ArgSets : ~a.https}
    /\ proc \in ServingProcs(variant, args)
    /\ slots = [i \in Handlers |-> Idle]
    /\ vproc = [v \in Variants |-> StartState]
    /\ vresp = [v \in Variants |-> NoAnswer]

SpecConc == InitConc /\ [][NextConc]_vars

(***************************************************************************)
(* Specification SpecStart: the process from its start to serving or exit. *)
(***************************************************************************)
InitStart ==
    /\ sysmime = TRUE
    /\ variant \in Variants
    /\ args \in ArgSets
    /\ proc = StartState
    /\ slots = [i \in Handlers |-> Idle]
    /\ vproc = [v \in Variants |-> StartState]
    /\ vresp = [v \in Variants |-> NoAnswer]

ParseArgs ==
    /\ proc.phase = "parse"
    /\ proc' = ParseStep(variant, args, proc)
    /\ UNCHANGED <<sysmime, variant, args, slots, vproc, vresp>>

Banner ==
    /\ proc.phase = "banner"
    /\ proc' = BannerStep(variant, args, proc)
    /\ UNCHANGED <<sysmime, variant, args, slots, vproc, vresp>>

GenerateKey ==
    /\ proc.phase = "genkey"
    /\ \E ok \in BOOLEAN : proc' = GenerateKeyStep(proc, ok)
    /\ UNCHANGED <<sysmime, variant, args, slots, vproc, vresp>>

SerialNumber ==
    /\ proc.phase = "serial"
    /\ \E ok \in BOOLEAN, bytes \in [1..SerialBytes -> RandByteValues] :
          proc' = SerialStep(proc, ok, bytes)
    /\ UNCHANGED <<sysmime, variant, args, slots, vproc, vresp>>

CreateCertificate ==
    /\ proc.phase = "cert"
    /\ \E ok \in BOOLEAN : proc' = CreateCertificateStep(proc, ok)
    /\ UNCHANGED <<sysmime, variant, args, slots, vproc, vresp>>

Listen ==
    /\ proc.phase = "listen"
    /\ \E ok \in BOOLEAN : proc' = ListenStep(proc, ok)
    /\ UNCHANGED <<sysmime, variant, args, slots, vproc, vresp>>

NextStart ==
    \/ ParseArgs
    \/ Banner
    \/ GenerateKey
    \/ SerialNumber
    \/ CreateCertificate
    \/ Listen

SpecStart == InitStart /\ [][NextStart]_vars

(***************************************************************************)
(* Specification SpecVariants: both variants started with the same         *)
(* arguments in the same environment and sent the same requests.           *)
(***************************************************************************)
InitVariants ==
    /\ sysmime \in BOOLEAN
    /\ variant = "part_000"
    /\ args \in ArgSets
    /\ proc = StartState
    /\ slots = [i \in Handlers |-> Idle]
    /\ vproc = [v \in Variants |-> StartState]
    /\ vresp = [v \in Variants |-> NoAnswer]

StartBoth ==
    /\ \A v \in Variants : vproc[v].phase = "parse"
    /\ \E e \in Fates :
          vproc' = [v \in Variants |-> RunStartup(v, args, vproc[v], e)]
    /\ UNCHANGED <<sysmime, variant, args, proc, slots, vresp>>

\* What a client of variant v gets for a request: nothing from a process
\* that does not answer; otherwise the response of v's handler.  The request
\* is HTTP/2 only where the client has asked for it and the process serves
\* TLS.
Answer(v, url, m, pr, o, s) ==
    IF Answers(args, vproc[v])
    THEN LET req == Accept(1, url, m, pr, args.https)
             x == IF v = "main" THEN MainRunHandler(args, req, o, s)
                  ELSE RunHandler(args, req, o, s)
         IN  [served |-> x.pc = "done", w |-> x.w]
    ELSE NoAnswer

\* The request paths sent to both: one segment, bare, with a leading '/' and
\* with a trailing one too.
VariantPaths ==
    UNION { { seg, <<"/">> \o seg, <<"/">> \o seg \o <<"/">> } : seg \in Segments }

\* One more request sent to both, after any number of earlier ones; vresp
\* holds the answers to the latest.
RequestBoth ==
    /\ \A v \in Variants : vproc[v].phase \in {"serving", "exited"}
    /\ \E url \in VariantPaths, m \in Methods, pr \in Protos(args),
          o \in AllOutcomes :
          /\ url # <<>> => o \in Outcomes(url)
          /\ \E s \in SendSizes(o) :
                vresp' = [v \in Variants |-> Answer(v, url, m, pr, o, s)]
    /\ UNCHANGED <<sysmime, variant, args, proc, slots, vproc>>

NextVariants ==
    \/ StartBoth
    \/ RequestBoth

SpecVariants == InitVariants /\ [][NextVariants]_vars

(***************************************************************************)
(* The notions the claims are stated in, defined apart from the code's     *)
(* own computation of them.                                                *)
(***************************************************************************)
EndsWithSlash(url) == Len(url) > 0 /\ url[Len(url)] = "/"

\* The final path segment: what follows the last '/'.
FinalSegment(url) == SubSeq(url, LastIndex(url, "/") + 1, Len(url))

\* The segment's extension: from its last '.', empty without one.
SegmentExt(seg) ==
    IF LastIndex(seg, ".") = 0 THEN <<>>
    ELSE SubSeq(seg, LastIndex(seg, "."), Len(seg))

ListedExtension(seg) == TypeByExtension(SegmentExt(seg)) \in MediaTypes

\* Only double quotes and backslashes escaped.
RECURSIVE EscapeQuotesAndBackslashes(_)
EscapeQuotesAndBackslashes(s) ==
    IF s = <<>> THEN <<>>
    ELSE (IF Head(s) \in {"\"", "\\"} THEN <<"\\", Head(s)>> ELSE <<Head(s)>>)
         \o EscapeQuotesAndBackslashes(Tail(s))

\* Characters that may not stand raw inside the literal.
RawForbidden ==
    { "\"", "\t", "\n", "\r", "\f", "U+0007", "U+0008", "U+000B", "U+0001",
      "U+007F", "U+00AD", "0xFF" }

\* The character an escape that starts s stands for, and the escape's length.
EscapeAt(s) ==
    LET c == IF Len(s) >= 2 THEN s[2] ELSE "none"
        short == CASE c = "\"" -> "\""
                   [] c = "\\" -> "\\"
                   [] c = "a"  -> "U+0007"
                   [] c = "b"  -> "U+0008"
                   [] c = "f"  -> "\f"
                   [] c = "n"  -> "\n"
                   [] c = "r"  -> "\r"
                   [] c = "t"  -> "\t"
                   [] c = "v"  -> "U+000B"
                   [] OTHER    -> "invalid"
        hex == IF Len(s) >= 4 THEN SubSeq(s, 3, 4) ELSE <<>>
        uni == IF Len(s) >= 6 THEN SubSeq(s, 3, 6) ELSE <<>>
    IN  IF c = "x"
        THEN [ len |-> 4,
               char |-> CASE hex = <<"0", "1">> -> "U+0001"
                          [] hex = <<"7", "f">> -> "U+007F"
                          [] hex = <<"f", "f">> -> "0xFF"
                          [] OTHER              -> "invalid" ]
        ELSE IF c = "u"
        THEN [ len |-> 6,
               char |-> IF uni = <<"0", "0", "a", "d">> THEN "U+00AD" ELSE "invalid" ]
        ELSE [ len |-> 2, char |-> short ]

\* Reading the inside of a Go string literal back: an escape stands for its
\* character; a raw quote, a raw control or non-printable character or an
\* unknown escape is invalid.
RECURSIVE Unescape(_)
Unescape(s) ==
    IF s = <<>> THEN <<>>
    ELSE IF Head(s) = "\\"
    THEN LET e == EscapeAt(s)
         IN  IF e.char = "invalid" THEN <<"invalid">>
             ELSE <<e.char>> \o Unescape(SubSeq(s, e.len + 1, Len(s)))
    ELSE IF Head(s) \in RawForbidden THEN <<"invalid">>
    ELSE <<Head(s)>> \o Unescape(Tail(s))

\* The header value is attachment; filename="<inner>", and <inner> read back
\* as a Go string literal is seg.
IsQuotedAttachment(d, seg) ==
    LET n == Len(DispositionPrefix)
    IN  /\ Len(d) >= n + 2
        /\ SubSeq(d, 1, n) = DispositionPrefix
        /\ d[n + 1] = "\""
        /\ d[Len(d)] = "\""
        /\ Unescape(SubSeq(d, n + 2, Len(d) - 1)) = seg

\* The response of exchange x has been started by the file server.
Responding(x) == x.outcome # "none"

Complete(x) == x.pc = "done"

\* The exchange is a request for a listed media file.
MediaRequest(x) ==
    /\ x.url # <<>>
    /\ ~EndsWithSlash(x.url)
    /\ ListedExtension(FinalSegment(x.url))

(***************************************************************************)
(* C1 as stated: a media request's response carries Content-Disposition    *)
(* attachment; filename="<basename>", the basename being the final path    *)
(* segment with its double quotes and backslashes escaped (and nothing     *)
(* else changed).                                                          *)
(***************************************************************************)
C1_QuotesAndBackslashesOnly ==
    \A i \in Handlers :
        LET x == slots[i]
        IN  (Responding(x) /\ MediaRequest(x)) =>
                x.w.disposition =
                    DispositionPrefix \o <<"\"">>
                    \o EscapeQuotesAndBackslashes(FinalSegment(x.url)) \o <<"\"">>

(***************************************************************************)
(* C1 amended: a media request's response carries Content-Disposition      *)
(* attachment; filename=<q>, where <q> is the final path segment as a Go   *)
(* string literal: in double quotes, with double quotes, backslashes and   *)
(* control characters (a tab as \t) escaped, so that <q> read back is      *)
(* exactly the final path segment.                                         *)
(***************************************************************************)
C1_DispositionIsQuotedBasename ==
    \A i \in Handlers :
        LET x == slots[i]
        IN  (Responding(x) /\ MediaRequest(x)) =>
                IsQuotedAttachment(x.w.disposition, FinalSegment(x.url))

\* A completed media request whose final segment holds a double quote and a
\* backslash, with the header on its response.
C1_Witness ==
    \E i \in Handlers :
        LET x == slots[i]
        IN  /\ Complete(x)
            /\ MediaRequest(x)
            /\ \E k \in 1..Len(FinalSegment(x.url)) : FinalSegment(x.url)[k] = "\""
            /\ \E k \in 1..Len(FinalSegment(x.url)) : FinalSegment(x.url)[k] = "\\"
            /\ x.w.disposition # NoHeader

(***************************************************************************)
(* C2: no Content-Disposition header for a request path that ends in '/',  *)
(* whatever its final segment, nor for one whose final segment has no      *)
(* extension or an extension of an unknown or unlisted MIME type.          *)
(***************************************************************************)
C2_NoDispositionOtherwise ==
    \A i \in Handlers :
        LET x == slots[i]
        IN  (x.pc # "idle" /\ ~MediaRequest(x)) => x.w.disposition = NoHeader

\* A completed and answered request /.../r.pdf/ (a directory request whose
\* last name looks like a media file) and one for a .css file, without header.
C2_Witness ==
    \E i \in Handlers :
        LET x == slots[i]
        IN  /\ Complete(x)
            /\ x.w.wroteHeader
            /\ x.w.disposition = NoHeader
            /\ \/ EndsWithSlash(x.url) /\ isMedia(Base(x.url))
               \/ ~EndsWithSlash(x.url)
                    /\ TypeByExtension(SegmentExt(FinalSegment(x.url))) # ""

(***************************************************************************)
(* C3 as stated: once the handler is past the style step of a directory    *)
(* request, the response body ends with exactly one style fragment, right  *)
(* after the bytes of the file server, whatever the file server answered.  *)
(***************************************************************************)
C3_BodyEndsWithStyle ==
    \A i \in Handlers :
        LET x == slots[i]
            b == x.w.body
        IN  (x.pc \in {"log", "done"} /\ EndsWithSlash(x.url)) =>
                /\ Len(b) >= 1
                /\ b[Len(b)] = StyleChunk(x)
                /\ \A k \in 1..(Len(b) - 1) : b[k][1] = "fs"

(***************************************************************************)
(* C4: within one request, the Content-Disposition header is only ever     *)
(* changed before the file server has been called, the status line written *)
(* or a byte of the body written.                                          *)
(***************************************************************************)
C4_HeaderBeforeBody ==
    [][ \A i \in Handlers :
            slots'[i].w.disposition # slots[i].w.disposition =>
                /\ slots[i].outcome = "none"
                /\ ~slots[i].w.wroteHeader
                /\ slots[i].w.body = <<>> ]_vars

\* A response with the header set and body bytes written after it.
C4_Witness ==
    \E i \in Handlers :
        /\ slots[i].w.disposition # NoHeader
        /\ slots[i].w.wroteHeader
        /\ slots[i].w.body # <<>>

(***************************************************************************)
(* C5: with requests handled concurrently, every chunk of a response was   *)
(* written by that request's own handler, and a style fragment is only in  *)
(* the response of a directory request, as its last chunk, written once    *)
(* the file server has finished that request's body.                       *)
(***************************************************************************)
C5_StyleOnlyAfterOwnBody ==
    \A i \in Handlers :
        LET x == slots[i]
            b == x.w.body
        IN  \A k \in 1..Len(b) :
                /\ b[k][2] = i
                /\ b[k][1] = "style" =>
                      /\ EndsWithSlash(x.url)
                      /\ k = Len(b)
                      /\ Responding(x)
                      /\ x.plan = 0
                      /\ x.pc \in {"log", "done"}

\* One handler has appended the style to its listing while another is in
\* the middle of its delegated body.
C5_Witness ==
    \E i, j \in Handlers :
        /\ i # j
        /\ Len(slots[i].w.body) > 1
        /\ slots[i].w.body[Len(slots[i].w.body)] = <<"style", i>>
        /\ slots[j].pc = "writing"
        /\ slots[j].w.body # <<>>

(***************************************************************************)
(* C6 as stated: with --https, the process is never serving with a missing *)
(* or invalid credential: a failed key generation, serial number           *)
(* generation or certificate construction ends the process at its start.   *)
(***************************************************************************)
C6_NeverServesWithoutCredential ==
    (proc.phase = "serving" /\ args.https) =>
        /\ proc.priv = "key"
        /\ ~proc.serialNil
        /\ proc.der = "ok"

(***************************************************************************)
(* C7 as stated: a completed request has exactly one log line when quiet   *)
(* mode is off and none when it is on, no line exists before the response  *)
(* is complete, and the line holds the request's method, path, protocol,   *)
(* remote address and User-Agent.                                          *)
(***************************************************************************)
C7_OneLogLineWithPath ==
    \A i \in Handlers :
        LET x == slots[i]
        IN  /\ ~Complete(x) => x.log = <<>>
            /\ (Complete(x) /\ args.silent) => x.log = <<>>
            /\ (Complete(x) /\ ~args.silent) =>
                  /\ Len(x.log) = 1
                  /\ DOMAIN x.log[1] = {"method", "path", "proto", "remote", "agent"}
                  /\ x.log[1].method = x.method
                  /\ x.log[1].path = x.url
                  /\ x.log[1].remote = i

(***************************************************************************)
(* C8 as stated: every serial number the generator produces is strictly    *)
(* positive and below 2^62.                                                *)
(***************************************************************************)
C8_SerialStrictlyPositive ==
    ~proc.serialNil =>
        /\ \E k \in 1..SerialBytes : proc.serial[k] # 0
        /\ proc.serial[1] < 2 ^ (SerialShift - 8 * (SerialBytes - 1))

(***************************************************************************)
(* C9 as stated: no request path, the empty path included, makes the       *)
(* handler abort before it delegates to the file server.                   *)
(***************************************************************************)
C9_ClassificationNeverFails ==
    \A i \in Handlers : slots[i].pc # "panicked"

(***************************************************************************)
(* C10 as stated: for every configuration and every sequence of requests   *)
(* the two variants reach the same serving state and give the same         *)
(* response headers and body for each request.                             *)
(***************************************************************************)
SameOutcome ==
    /\ vproc["main"].phase = vproc["part_000"].phase
    /\ vproc["main"].exit = vproc["part_000"].exit
    /\ vresp["main"] = vresp["part_000"]

C10_VariantsAgree == SameOutcome

====
